---- MODULE Spec2Model ----
(***************************************************************************)
(* A model of web3_proxy's supervisor (bin/web3_proxy.rs, run) and of its  *)
(* WebSocket frontend (frontend/rpc_proxy_ws.rs).                          *)
(***************************************************************************)
EXTENDS Integers, Sequences, FiniteSets, TLC

(***************************************************************************)
(* Bounds of the model.                                                    *)
(***************************************************************************)
\* how many values the holder of the other shutdown_sender clone may send
MaxExtSends == 2
\* how many frames the client sends in a run with one WebSocket connection
MaxFrames == 3
\* how many frames the clients send together in a run with two connections
MaxFramesShared == 2
\* how many frames a client that also sends Binary frames sends in a run
MaxFramesBinary == 2
\* how many snapshots are published in a run
MaxPublications == 2
\* the highest block number of a published snapshot
MaxBlock == 2
\* how many blocks the upstream mines while the proxy runs
MaxMined == 2
\* how many times the client reads the latest block
MaxReads == 3
\* how many requests arrive on the WebSocket routes
MaxRequests == 2
\* how many events the upstream delivers to the subscriptions of one connection
MaxEvents == 2

(***************************************************************************)
(* The supervisor: run().                                                  *)
(***************************************************************************)
\* the three futures the select! of run() supervises besides the two signals
Supervised == {"app_handles", "frontend", "prometheus"}
\* the handles in spawned_app.background_handles
Background == {"bg1", "bg2"}
\* a joined task either returned Ok, returned Err, or panicked (JoinError)
Completed == {"ok", "err", "panic"}

VARIABLES
    runPc,              \* where run() is: start, spawn, select, notify, drain, done
    runResult,          \* what run() returned: none, Ok, Err
    selected,           \* the branch of select! that completed, or none
    runSent,            \* run() itself sent a value on shutdown_sender (line 139)
    supervised,         \* state of each supervised task
    background,         \* state of each background task
    drained,            \* background handles that background_handles.next() yielded
    background_errors,  \* the counter of lines 145-157
    rxBuf,              \* values waiting in run's shutdown_receiver: 0, 1, 2 = lagged
    signalled,          \* the receiver handed to Web3ProxyApp::spawn has seen a value
    ctrlc,              \* tokio::signal::ctrl_c(): none, ok, err
    extSends,           \* values sent by the other holder of shutdown_sender
    maxSends,           \* how many values that holder sends in this run
    mayFail             \* tasks of this run may stop on their own or fail

runVars == <<runPc, runResult, selected, runSent, supervised, background, drained,
             background_errors, rxBuf, signalled, ctrlc, extSends, maxSends, mayFail>>

\* the WebSocket connections that proxy_web3_socket was started for
Conns == {"c1", "c2"}

VARIABLES
    live,               \* the connections proxy_web3_socket was called for in this run
    binary,             \* whether the clients of this run send Binary frames
    sock,               \* the client's side of the socket: open, closed
    inbound,            \* frames the client sent that ws_rx has not yielded yet
    sentFrames,         \* how many frames the client of the connection sent
    readerPc,           \* read_web3_socket: idle (in ws_rx.next()), handling, done, panicked
    cur,                \* the frame whose handle_socket_payload is suspended
    response_msg,       \* the last message handle_socket_payload returned
    subscriptions,      \* the HashMap<String, AbortHandle> of read_web3_socket
    subscription_count, \* the AtomicUsize of read_web3_socket
    tasks,              \* the subscription tasks eth_subscribe spawned
    queue,              \* the flume channel response_sender -> response_rx
    history,            \* every message ever sent on the channel, in order
    writerPc,           \* write_web3_socket: running, done
    written             \* the messages ws_tx.send wrote to the socket, in order

wsVars == <<live, binary, sock, inbound, sentFrames, readerPc, cur, response_msg, subscriptions,
            subscription_count, tasks, queue, history, writerPc, written>>

(***************************************************************************)
(* The state of rpcs/synced_connections.rs: the published snapshot of the   *)
(* synced connections and the calls that read it.                          *)
(***************************************************************************)
VARIABLES
    synced_connections, \* the snapshot the ArcSwap of Web3Connections holds
    publications,       \* how many snapshots were stored so far
    readPc,             \* a reading call: idle, called, loaded, returned
    readFn,             \* the method of Web3Connections the call is of
    loaded,             \* the snapshot the call's load() returned
    during,             \* the snapshots that were the published one during the call
    result              \* what the call returned

snapVars == <<synced_connections, publications, readPc, readFn, loaded, during, result>>

(***************************************************************************)
(* The state of a read through the proxy: the upstream's chain, the heads   *)
(* on their way to the proxy, the response cache and what the client of    *)
(* the test it_works was answered.                                         *)
(***************************************************************************)
VARIABLES
    chain,              \* the number of the upstream's latest block
    head_stream,        \* the heads the upstream announced and the proxy did not process yet
    response_cache,     \* the blocks in the response cache, keyed by their hash
    anvil_result,       \* what the upstream answered to the last read
    proxy_result,       \* what the proxy answered to the last read
    mined_since_read,   \* the blocks the upstream mined since the last read
    reads               \* how many times the client read the latest block

chainVars == <<chain, head_stream, response_cache, anvil_result, proxy_result,
               mined_since_read, reads>>

(***************************************************************************)
(* The state of the two WebSocket route handlers of rpc_proxy_ws.rs.       *)
(***************************************************************************)
VARIABLES
    redirect_user_url,  \* app.config.redirect_user_url, a Handlebars template
    ws_request,         \* the last request a handler was called with
    ws_response,        \* what the handler returned for it
    pending_upgrade,    \* an upgrade was returned and its callback did not run yet
    sessions,           \* how many times proxy_web3_socket was called
    handled             \* how many requests the handlers were called with

handlerVars == <<redirect_user_url, ws_request, ws_response, pending_upgrade, sessions,
                 handled>>

notRunVars == <<wsVars, snapVars, chainVars, handlerVars>>
notWsVars == <<runVars, snapVars, chainVars, handlerVars>>
notSnapVars == <<runVars, wsVars, chainVars, handlerVars>>
notChainVars == <<runVars, wsVars, snapVars, handlerVars>>
notHandlerVars == <<runVars, wsVars, snapVars, chainVars>>

vars == <<runVars, wsVars, snapVars, chainVars, handlerVars>>

\* capacity of the broadcast channel of main()/the test: broadcast::channel(1)
ShutdownCapacity == 1

RunInit ==
    /\ runPc = "start"
    /\ runResult = "none"
    /\ selected = "none"
    /\ runSent = FALSE
    /\ supervised = [t \in Supervised |-> "unspawned"]
    /\ background = [b \in Background |-> "unspawned"]
    /\ drained = {}
    /\ background_errors = 0
    /\ rxBuf = 0
    /\ signalled = FALSE
    /\ ctrlc = "none"
    /\ extSends = 0
    /\ maxSends \in 0..MaxExtSends
    /\ mayFail \in BOOLEAN

\* dropping the tokio runtime when run() returns cancels every task still running
DropRuntime(hs) ==
    [t \in DOMAIN hs |-> IF hs[t] = "running" THEN "cancelled" ELSE hs[t]]

\* broadcast::Receiver::recv on a receiver that holds n unread values: more
\* than the capacity means the oldest were overwritten and recv is Err(Lagged)
RecvLagged(n) == IF n >= ShutdownCapacity THEN "Err" ELSE "Ok"
Recv(n) == IF n > ShutdownCapacity THEN "Err" ELSE "Ok"

\* line 35: let mut shutdown_receiver = shutdown_sender.subscribe();
Subscribe ==
    /\ runPc = "start"
    /\ runPc' = "spawn"
    /\ UNCHANGED <<runResult, selected, runSent, supervised, background, drained,
                   background_errors, rxBuf, signalled, ctrlc, extSends, maxSends, mayFail>>
    /\ UNCHANGED notRunVars

\* lines 83-92: Web3ProxyApp::spawn(...).await? and the two tokio::spawn
SpawnApp ==
    /\ runPc = "spawn"
    /\ \/ /\ runPc' = "select"
          /\ supervised' = [t \in Supervised |-> "running"]
          /\ background' = [b \in Background |-> "running"]
          /\ UNCHANGED runResult
       \/ /\ mayFail
          /\ runPc' = "done"
          /\ runResult' = "Err"
          /\ UNCHANGED <<supervised, background>>
    /\ UNCHANGED <<selected, runSent, drained, background_errors, rxBuf, signalled,
                   ctrlc, extSends, maxSends, mayFail>>
    /\ UNCHANGED notRunVars

\* the outcome of one branch of select! (lines 95-136): Ok falls through to
\* line 138, Err returns from the async block and so from run()
SelectOutcome(branch, res) ==
    /\ selected' = branch
    /\ IF res = "Ok"
       THEN /\ runPc' = "notify"
            /\ UNCHANGED <<runResult, supervised, background>>
       ELSE /\ runPc' = "done"
            /\ runResult' = "Err"
            /\ supervised' = DropRuntime(supervised)
            /\ background' = DropRuntime(background)
    /\ UNCHANGED <<runSent, drained, background_errors, signalled, ctrlc, extSends,
                   maxSends, mayFail>>
    /\ UNCHANGED notRunVars

\* lines 96-119: flatten_handles(app_handles) / flatten_handle(frontend_handle) /
\* flatten_handle(prometheus_handle) completed
SelectTask(t) ==
    /\ runPc = "select"
    /\ supervised[t] \in Completed
    /\ SelectOutcome(t, IF supervised[t] = "ok" THEN "Ok" ELSE "Err")
    /\ UNCHANGED rxBuf

\* lines 120-127: tokio::signal::ctrl_c() completed
SelectCtrlC ==
    /\ runPc = "select"
    /\ ctrlc # "none"
    /\ SelectOutcome("ctrl_c", IF ctrlc = "ok" THEN "Ok" ELSE "Err")
    /\ UNCHANGED rxBuf

\* lines 128-135: shutdown_receiver.recv() completed
SelectShutdown ==
    /\ runPc = "select"
    /\ rxBuf > 0
    /\ SelectOutcome("shutdown", Recv(rxBuf))
    /\ rxBuf' = 0

\* lines 138-141: one of the handles stopped. send a value so the others know
SendShutdown ==
    /\ runPc = "notify"
    /\ runPc' = "drain"
    /\ runSent' = TRUE
    /\ signalled' = TRUE
    /\ UNCHANGED <<runResult, selected, supervised, background, drained,
                   background_errors, rxBuf, ctrlc, extSends, maxSends, mayFail>>
    /\ UNCHANGED notRunVars

\* lines 146-157: background_handles.next().await yields a finished handle
DrainNext(b) ==
    /\ runPc = "drain"
    /\ b \notin drained
    /\ background[b] \in Completed
    /\ drained' = drained \cup {b}
    /\ background_errors' = IF background[b] = "ok" THEN background_errors
                            ELSE background_errors + 1
    /\ UNCHANGED <<runPc, runResult, selected, runSent, supervised, background,
                   rxBuf, signalled, ctrlc, extSends, maxSends, mayFail>>
    /\ UNCHANGED notRunVars

\* what the async block evaluates to after the drain, lines 160-167
DrainResult(errors) == "Ok"

\* lines 146, 160-167: the stream is exhausted, log and return
DrainDone ==
    /\ runPc = "drain"
    /\ drained = Background
    /\ runPc' = "done"
    /\ runResult' = DrainResult(background_errors)
    /\ supervised' = DropRuntime(supervised)
    /\ background' = DropRuntime(background)
    /\ UNCHANGED <<selected, runSent, drained, background_errors, rxBuf, signalled,
                   ctrlc, extSends, maxSends, mayFail>>
    /\ UNCHANGED notRunVars

\* the runtime is alive and the tasks are spawned
Running == runPc \in {"select", "notify", "drain"}

\* a supervised task stops. "if everything is working, these should both run
\* forever": it stops with Ok once it was told to shut down, and on its own
\* account (with Ok or Err) only in a run where tasks may fail
SupervisedExit(t, res) ==
    /\ Running
    /\ supervised[t] = "running"
    /\ IF res = "ok" THEN signalled \/ mayFail ELSE mayFail
    /\ supervised' = [supervised EXCEPT ![t] = res]
    /\ UNCHANGED <<runPc, runResult, selected, runSent, background, drained,
                   background_errors, rxBuf, signalled, ctrlc, extSends, maxSends, mayFail>>
    /\ UNCHANGED notRunVars

\* a background task (saving stats) finishes: with Ok once it was told to
\* shut down, with Err or a panic only in a run where tasks may fail
BackgroundExit(b, res) ==
    /\ Running
    /\ background[b] = "running"
    /\ IF res = "ok" THEN signalled \/ mayFail ELSE mayFail
    /\ background' = [background EXCEPT ![b] = res]
    /\ UNCHANGED <<runPc, runResult, selected, runSent, supervised, drained,
                   background_errors, rxBuf, signalled, ctrlc, extSends, maxSends, mayFail>>
    /\ UNCHANGED notRunVars

\* the user presses ctrl-c, or (in a run where things may fail) listening fails
CtrlC(res) ==
    /\ Running
    /\ ctrlc = "none"
    /\ res = "err" => mayFail
    /\ ctrlc' = res
    /\ UNCHANGED <<runPc, runResult, selected, runSent, supervised, background, drained,
                   background_errors, rxBuf, signalled, extSends, maxSends, mayFail>>
    /\ UNCHANGED notRunVars

\* the holder of the other clone of shutdown_sender sends a value (test line
\* 393). A receiver sees only the values sent after it subscribed
ExternalSend ==
    /\ runPc # "done"
    /\ extSends < maxSends
    /\ extSends' = extSends + 1
    /\ rxBuf' = IF runPc = "start" THEN rxBuf
                ELSE IF rxBuf > ShutdownCapacity THEN rxBuf ELSE rxBuf + 1
    /\ signalled' = (signalled \/ Running)
    /\ UNCHANGED <<runPc, runResult, selected, runSent, supervised, background, drained,
                   background_errors, ctrlc, maxSends, mayFail>>
    /\ UNCHANGED notRunVars

RunStep ==
    \/ Subscribe
    \/ SpawnApp
    \/ \E t \in Supervised : SelectTask(t)
    \/ SelectCtrlC
    \/ SelectShutdown
    \/ SendShutdown
    \/ \E b \in Background : DrainNext(b)
    \/ DrainDone

RunNext ==
    \/ RunStep
    \/ \E t \in Supervised, res \in {"ok", "err"} : SupervisedExit(t, res)
    \/ \E b \in Background, res \in Completed : BackgroundExit(b, res)
    \/ \E res \in {"ok", "err"} : CtrlC(res)
    \/ ExternalSend

(***************************************************************************)
(* The WebSocket frontend: proxy_web3_socket, read_web3_socket,            *)
(* handle_socket_payload and write_web3_socket.                            *)
(***************************************************************************)
\* a JSON value, as far as the subscription ids and params need it: a string
\* or an array of strings, or no value (params absent)
JsonStr(s) == [t |-> "str", items |-> <<s>>]
JsonArr(xs) == [t |-> "arr", items |-> xs]
NoParams == [t |-> "none", items |-> <<>>]

\* the id eth_subscribe derives from the counter it is handed: a U64,
\* serialised as a hex string
Hex == <<"0x1", "0x2", "0x3", "0x4", "0x5", "0x6", "0x7", "0x8">>

\* the JSON text of the elements of an array
RECURSIVE Joined(_)
Joined(xs) ==
    IF xs = <<>> THEN <<>>
    ELSE IF Len(xs) = 1 THEN <<"\"", xs[1], "\"">>
    ELSE <<"\"", xs[1], "\"", ",">> \o Joined(Tail(xs))

\* to_string() of a JSON value (lines 182 and 192): its JSON text, here the
\* sequence of its tokens
ToJsonString(v) ==
    IF v.t = "str" THEN <<"\"", v.items[1], "\"">>
    ELSE <<"[">> \o Joined(v.items) \o <<"]">>

\* the id of the response to a payload that did not parse, line 216
NullId == 0

\* messages on the channel and on the socket
Resp(id, val) == [kind |-> "Text", id |-> id, val |-> val]
Notify(sub, n) == [kind |-> "Notify", id |-> n, val |-> sub]
\* a pong that drops the payload of the ping
PongEmpty(x) == [kind |-> "Pong", id |-> 0, val |-> ""]
\* Message::Pong(x) of line 257
Pong(x) == [kind |-> "Pong", id |-> x, val |-> ""]
NoMsg == [kind |-> "None", id |-> 0, val |-> ""]

\* frames of the client. A Text frame carries a payload that parses as a
\* JsonRpcRequest (valid) with an id, a method and params, or does not. The
\* bytes of a Binary frame are the UTF-8 encoding of such a payload (utf8),
\* or are not valid UTF-8
Frame(kind, id, valid, method, params) ==
    [kind |-> kind, id |-> id, valid |-> valid, method |-> method, params |-> params,
     utf8 |-> TRUE]
NoFrame == Frame("None", 0, FALSE, "", NoParams)

\* the Binary frame whose bytes encode the payload of the Text frame f, and
\* the Text frame that carries the text the bytes of b encode
BinaryOf(f) == [f EXCEPT !.kind = "Binary"]
TextOf(b) == [b EXCEPT !.kind = "Text"]
\* a Binary frame whose bytes are not valid UTF-8
BadBinary(id) == [Frame("Binary", id, FALSE, "", NoParams) EXCEPT !.utf8 = FALSE]

\* the ids of the subscriptions that were opened on the connection
IssuedIds(c) == {tasks[c][i].sub : i \in DOMAIN tasks[c]}

\* the Text frames a client may send next: requests numbered by arrival
TextChoices(c) ==
    LET id == sentFrames[c] + 1 IN
       {Frame("Text", id, TRUE, "eth_subscribe", JsonArr(<<"newHeads">>)),
        Frame("Text", id, TRUE, "eth_getBlockByNumber", JsonArr(<<"latest">>)),
        Frame("Text", id, TRUE, "eth_unsubscribe", NoParams),
        Frame("Text", id, FALSE, "", NoParams)}
       \cup {Frame("Text", id, TRUE, "eth_unsubscribe", JsonArr(<<s>>)) : s \in IssuedIds(c)}
       \cup {Frame("Text", id, TRUE, "eth_unsubscribe", JsonStr(s)) : s \in IssuedIds(c)}

\* the frames a client may send next
FrameChoices(c) ==
    LET id == sentFrames[c] + 1 IN
       TextChoices(c)
       \cup (IF binary THEN {BinaryOf(f) : f \in TextChoices(c)} \cup {BadBinary(id)} ELSE {})
       \cup {Frame("Ping", id, FALSE, "", NoParams),
             Frame("Pong", id, FALSE, "", NoParams),
             Frame("Close", id, FALSE, "", NoParams)}

EmptyMap == [k \in {} |-> 0]

WsInit ==
    /\ live \in {{"c1"}, Conns}
    /\ binary \in BOOLEAN
    /\ sock = [c \in Conns |-> "open"]
    /\ inbound = [c \in Conns |-> <<>>]
    /\ sentFrames = [c \in Conns |-> 0]
    /\ readerPc = [c \in Conns |-> "idle"]
    /\ cur = [c \in Conns |-> NoFrame]
    /\ response_msg = [c \in Conns |-> NoMsg]
    /\ subscriptions = [c \in Conns |-> EmptyMap]
    /\ subscription_count = [c \in Conns |-> 1]
    /\ tasks = [c \in Conns |-> <<>>]
    /\ queue = [c \in Conns |-> <<>>]
    /\ history = [c \in Conns |-> <<>>]
    /\ writerPc = [c \in Conns |-> "running"]
    /\ written = [c \in Conns |-> <<>>]

\* an insert that forgets the other entries
InsertAlone(m, k, v) == [x \in {k} |-> v]
\* HashMap::insert and HashMap::remove
Insert(m, k, v) == [x \in DOMAIN m \cup {k} |-> IF x = k THEN v ELSE m[x]]
Remove(m, k) == [x \in DOMAIN m \ {k} |-> m[x]]

\* app.eth_subscribe(authorized_request, payload, subscription_count,
\* response_sender): the subscription id is drawn from the counter it is
\* handed; on success a task is spawned that holds the sender clone
EthSubscribe(count, oc) ==
    [ok |-> oc = "ok", result |-> JsonStr(Hex[count]), count |-> count + 1]

\* what one arm of handle_socket_payload yields: the anyhow::Result (Ok with a
\* value, or Err), the map and the counter afterwards, whether a task was
\* spawned with the new handle, and the handles that were aborted
Outcome(res, val, subs, count, spawn, abort) ==
    [res |-> res, val |-> val, subscriptions |-> subs, count |-> count,
     spawn |-> spawn, abort |-> abort]

\* lines 164-188, where the same counter is not handed on
SubscribeArmCopy(count, subs, oc, handle) ==
    LET r == EthSubscribe(count, oc) IN
    IF r.ok
    THEN Outcome("Ok", r.result.items[1], Insert(subs, ToJsonString(r.result), handle),
                 count, TRUE, {})
    ELSE Outcome("Err", "error", subs, count, FALSE, {})

\* lines 164-188: "eth_subscribe"
SubscribeArm(count, subs, oc, handle) ==
    LET r == EthSubscribe(count, oc) IN
    IF r.ok
    THEN Outcome("Ok", r.result.items[1], Insert(subs, ToJsonString(r.result), handle),
                 r.count, TRUE, {})
    ELSE Outcome("Err", "error", subs, r.count, FALSE, {})

\* an eth_unsubscribe that aborts the handle and leaves it in the map
UnsubscribeArmKeep(params, count, subs) ==
    IF params = NoParams THEN Outcome("Panic", "", subs, count, FALSE, {})
    ELSE LET subscription_id == ToJsonString(params) IN
         IF subscription_id \in DOMAIN subs
         THEN Outcome("Ok", "true", subs, count, FALSE, {subs[subscription_id]})
         ELSE Outcome("Ok", "false", subs, count, FALSE, {})

\* lines 189-206: "eth_unsubscribe". payload.params.unwrap() panics without params
UnsubscribeArm(params, count, subs) ==
    IF params = NoParams THEN Outcome("Panic", "", subs, count, FALSE, {})
    ELSE LET subscription_id == ToJsonString(params) IN
         IF subscription_id \in DOMAIN subs
         THEN Outcome("Ok", "true", Remove(subs, subscription_id), count, FALSE,
                      {subs[subscription_id]})
         ELSE Outcome("Ok", "false", subs, count, FALSE, {})

\* lines 207-210: every other method goes to app.proxy_web3_rpc
ProxyArm(count, subs, oc) ==
    IF oc = "ok" THEN Outcome("Ok", "result", subs, count, FALSE, {})
    ELSE Outcome("Err", "error", subs, count, FALSE, {})

\* lines 158-219: parse the payload and dispatch on the method
Dispatch(f, count, subs, oc, handle) ==
    IF ~f.valid THEN Outcome("Err", "error", subs, count, FALSE, {})
    ELSE IF f.method = "eth_subscribe" THEN SubscribeArm(count, subs, oc, handle)
    ELSE IF f.method = "eth_unsubscribe" THEN UnsubscribeArm(f.params, count, subs)
    ELSE ProxyArm(count, subs, oc)

\* a handler that answers with the number of the frame whether or not the
\* payload parsed
HandleSocketPayloadEchoId(f, count, subs, oc, handle) ==
    LET o == Dispatch(f, count, subs, oc, handle)
    IN [panic |-> o.res = "Panic",
        response |-> Resp(f.id, o.val),
        subscriptions |-> o.subscriptions,
        count |-> o.count,
        spawn |-> o.spawn,
        abort |-> o.abort]

\* a handler that answers every request with the id null
HandleSocketPayloadNullId(f, count, subs, oc, handle) ==
    LET o == Dispatch(f, count, subs, oc, handle)
    IN [panic |-> o.res = "Panic",
        response |-> Resp(NullId, o.val),
        subscriptions |-> o.subscriptions,
        count |-> o.count,
        spawn |-> o.spawn,
        abort |-> o.abort]

\* lines 149-232: handle_socket_payload. The response carries the id of the
\* request, or null when the payload did not parse
HandleSocketPayload(f, count, subs, oc, handle) ==
    LET o == Dispatch(f, count, subs, oc, handle)
        id == IF f.valid THEN f.id ELSE NullId
    IN [panic |-> o.res = "Panic",
        response |-> Resp(id, o.val),
        subscriptions |-> o.subscriptions,
        count |-> o.count,
        spawn |-> o.spawn,
        abort |-> o.abort]

\* the frames the clients send in this run
FrameBudget ==
    IF live = Conns THEN MaxFramesShared ELSE IF binary THEN MaxFramesBinary ELSE MaxFrames

\* the notifications that were sent on the channel of the connection
Notified(c) == SelectSeq(history[c], LAMBDA m : m.kind = "Notify")

\* a client sends a frame
ClientSend(c, f) ==
    /\ sock[c] = "open"
    /\ sentFrames["c1"] + sentFrames["c2"] < FrameBudget
    /\ inbound' = [inbound EXCEPT ![c] = Append(@, f)]
    /\ sentFrames' = [sentFrames EXCEPT ![c] = @ + 1]
    /\ sock' = [sock EXCEPT ![c] = IF f.kind = "Close" THEN "closing" ELSE @]
    /\ UNCHANGED <<live, binary, readerPc, cur, response_msg, subscriptions, subscription_count,
                   tasks, queue, history, writerPc, written>>
    /\ UNCHANGED notWsVars

\* the client goes away without a Close frame
ClientDisconnect(c) ==
    /\ sock[c] \in {"open", "closing"}
    /\ sock' = [sock EXCEPT ![c] = "closed"]
    /\ UNCHANGED <<live, binary, inbound, sentFrames, readerPc, cur, response_msg, subscriptions,
                   subscription_count, tasks, queue, history, writerPc, written>>
    /\ UNCHANGED notWsVars

\* a stream that yields the newest frame first
NextNewest(inb) == [frame |-> inb[Len(inb)], rest |-> SubSeq(inb, 1, Len(inb) - 1)]
\* ws_rx.next() of line 243 yields the frames in the order they arrived
WsRxNext(inb) == [frame |-> Head(inb), rest |-> Tail(inb)]

\* a decoding that loses the text
FromUtf8Lossy(f) == [ok |-> f.utf8, payload |-> [f EXCEPT !.valid = FALSE]]
\* from_utf8_mut(&mut payload) of line 268: the bytes seen as text, unchanged,
\* when they are valid UTF-8, and an error otherwise
FromUtf8Mut(f) == [ok |-> f.utf8, payload |-> f]

\* response_sender.send_async(msg) of line 282: Err when the receiver was
\* dropped, and the reader breaks out of its loop
SendAsync(c, msg) ==
    IF writerPc[c] = "running"
    THEN /\ queue' = [queue EXCEPT ![c] = Append(@, msg)]
         /\ history' = [history EXCEPT ![c] = Append(@, msg)]
         /\ readerPc' = [readerPc EXCEPT ![c] = "idle"]
    ELSE /\ readerPc' = [readerPc EXCEPT ![c] = "done"]
         /\ UNCHANGED <<queue, history>>

\* lines 243-280: the reader takes the next frame. A Text frame suspends in
\* handle_socket_payload; Ping is answered with Pong; Pong is skipped; Close
\* ends the loop; the bytes of a Binary frame are decoded, which panics on
\* invalid UTF-8 (unwrap), and then handled as the text
ReadFrame(c) ==
    /\ readerPc[c] = "idle"
    /\ inbound[c] # <<>>
    /\ LET f == WsRxNext(inbound[c]).frame IN
       /\ inbound' = [inbound EXCEPT ![c] = WsRxNext(inbound[c]).rest]
       /\ CASE f.kind = "Text" ->
                 /\ readerPc' = [readerPc EXCEPT ![c] = "handling"]
                 /\ cur' = [cur EXCEPT ![c] = f]
                 /\ UNCHANGED <<sock, queue, history>>
            [] f.kind = "Binary" ->
                 /\ IF FromUtf8Mut(f).ok
                    THEN /\ readerPc' = [readerPc EXCEPT ![c] = "handling"]
                         /\ cur' = [cur EXCEPT ![c] = FromUtf8Mut(f).payload]
                    ELSE /\ readerPc' = [readerPc EXCEPT ![c] = "panicked"]
                         /\ UNCHANGED cur
                 /\ UNCHANGED <<sock, queue, history>>
            [] f.kind = "Ping" ->
                 /\ SendAsync(c, Pong(f.id))
                 /\ UNCHANGED <<sock, cur>>
            [] f.kind = "Pong" ->
                 UNCHANGED <<sock, readerPc, cur, queue, history>>
            [] f.kind = "Close" ->
                 /\ readerPc' = [readerPc EXCEPT ![c] = "done"]
                 /\ sock' = [sock EXCEPT ![c] = "closed"]
                 /\ UNCHANGED <<cur, queue, history>>
    /\ UNCHANGED <<live, binary, sentFrames, response_msg, subscriptions, subscription_count,
                   tasks, writerPc, written>>
    /\ UNCHANGED notWsVars

\* line 243: ws_rx.next() yields None or an error, the loop ends
ReadEnd(c) ==
    /\ readerPc[c] = "idle"
    /\ inbound[c] = <<>>
    /\ sock[c] = "closed"
    /\ readerPc' = [readerPc EXCEPT ![c] = "done"]
    /\ UNCHANGED <<live, binary, sock, inbound, sentFrames, cur, response_msg, subscriptions,
                   subscription_count, tasks, queue, history, writerPc, written>>
    /\ UNCHANGED notWsVars

\* the tasks of a connection after handle_socket_payload: the aborted ones
\* stop, and the task of a new subscription is appended
TasksAfter(ts, r) ==
    LET aborted == [i \in DOMAIN ts |->
                       IF i \in r.abort THEN [ts[i] EXCEPT !.state = "aborted"] ELSE ts[i]]
    IN IF r.spawn
       THEN Append(aborted, [sub |-> r.response.val, state |-> "running", emitted |-> 0])
       ELSE aborted

\* lines 246-256 and 282-288: handle_socket_payload completes with the
\* upstream's outcome oc, and its message is sent on the channel
CompletePayload(c, oc) ==
    /\ readerPc[c] = "handling"
    /\ LET r == HandleSocketPayload(cur[c], subscription_count[c], subscriptions[c],
                                    oc, Len(tasks[c]) + 1) IN
       IF r.panic
       THEN /\ readerPc' = [readerPc EXCEPT ![c] = "panicked"]
            /\ UNCHANGED <<response_msg, subscriptions, subscription_count, tasks,
                           queue, history>>
       ELSE /\ response_msg' = [response_msg EXCEPT ![c] = r.response]
            /\ subscriptions' = [subscriptions EXCEPT ![c] = r.subscriptions]
            /\ subscription_count' = [subscription_count EXCEPT ![c] = r.count]
            /\ tasks' = [tasks EXCEPT ![c] = TasksAfter(@, r)]
            /\ SendAsync(c, r.response)
    /\ cur' = [cur EXCEPT ![c] = NoFrame]
    /\ UNCHANGED <<live, binary, sock, inbound, sentFrames, writerPc, written>>
    /\ UNCHANGED notWsVars

\* the task of a subscription receives an event from the upstream and sends
\* the notification on its clone of response_sender; it stops when the send
\* fails because the receiver was dropped
TaskEmit(c, i) ==
    /\ i \in DOMAIN tasks[c]
    /\ tasks[c][i].state = "running"
    /\ Len(Notified(c)) < MaxEvents
    /\ IF writerPc[c] = "running"
       THEN LET msg == Notify(tasks[c][i].sub, tasks[c][i].emitted + 1) IN
            /\ queue' = [queue EXCEPT ![c] = Append(@, msg)]
            /\ history' = [history EXCEPT ![c] = Append(@, msg)]
            /\ tasks' = [tasks EXCEPT ![c][i].emitted = @ + 1]
       ELSE /\ tasks' = [tasks EXCEPT ![c][i].state = "ended"]
            /\ UNCHANGED <<queue, history>>
    /\ UNCHANGED <<live, binary, sock, inbound, sentFrames, readerPc, cur, response_msg,
                   subscriptions, subscription_count, writerPc, written>>
    /\ UNCHANGED notWsVars

\* a channel that yields the newest message first
RecvAsyncNewest(q) == [msg |-> q[Len(q)], rest |-> SubSeq(q, 1, Len(q) - 1)]
\* response_rx.recv_async() of line 298 yields the oldest message of the channel
RecvAsync(q) == [msg |-> Head(q), rest |-> Tail(q)]

\* lines 298-309: the writer takes a message and forwards it; when ws_tx.send
\* fails it breaks, which drops the receiver and what it still holds
WriterWrite(c) ==
    /\ writerPc[c] = "running"
    /\ queue[c] # <<>>
    /\ IF sock[c] # "closed"
       THEN /\ written' = [written EXCEPT ![c] = Append(@, RecvAsync(queue[c]).msg)]
            /\ queue' = [queue EXCEPT ![c] = RecvAsync(queue[c]).rest]
            /\ UNCHANGED writerPc
       ELSE /\ writerPc' = [writerPc EXCEPT ![c] = "done"]
            /\ queue' = [queue EXCEPT ![c] = <<>>]
            /\ UNCHANGED written
    /\ UNCHANGED <<live, binary, sock, inbound, sentFrames, readerPc, cur, response_msg,
                   subscriptions, subscription_count, tasks, history>>
    /\ UNCHANGED notWsVars

\* a sender of the channel is alive: the reader's, or the clone of a running
\* subscription task
SenderAlive(c) ==
    \/ readerPc[c] \in {"idle", "handling"}
    \/ \E i \in DOMAIN tasks[c] : tasks[c][i].state = "running"

\* line 298: recv_async() fails once the channel is empty and every sender
\* was dropped
WriterExit(c) ==
    /\ writerPc[c] = "running"
    /\ queue[c] = <<>>
    /\ ~SenderAlive(c)
    /\ writerPc' = [writerPc EXCEPT ![c] = "done"]
    /\ UNCHANGED <<live, binary, sock, inbound, sentFrames, readerPc, cur, response_msg,
                   subscriptions, subscription_count, tasks, queue, history, written>>
    /\ UNCHANGED notWsVars

\* the steps of the tasks of one connection that the executor schedules
ConnStep(c) ==
    \/ ReadFrame(c)
    \/ ReadEnd(c)
    \/ \E oc \in {"ok", "err"} : CompletePayload(c, oc)
    \/ WriterWrite(c)
    \/ WriterExit(c)

WsNext ==
    \/ \E c \in live : \E f \in FrameChoices(c) : ClientSend(c, f)
    \/ \E c \in live : ClientDisconnect(c)
    \/ \E c \in live : ReadFrame(c)
    \/ \E c \in live : ReadEnd(c)
    \/ \E c \in live, oc \in {"ok", "err"} : CompletePayload(c, oc)
    \/ \E c \in live : \E i \in DOMAIN tasks[c] : TaskEmit(c, i)
    \/ \E c \in live : WriterWrite(c)
    \/ \E c \in live : WriterExit(c)

(***************************************************************************)
(* rpcs/synced_connections.rs                                              *)
(***************************************************************************)
\* Option<T>
None == <<>>
Some(v) == <<v>>

\* the upstreams of the proxy
Rpcs == {"A", "B"}
\* the hash of the block with each number
BlockHashes == <<"0xa", "0xb", "0xc", "0xd">>
\* SavedBlock: a block with its hash and its number
Block(n) == [hash |-> BlockHashes[n], number |-> n]
SavedBlocks == {Block(n) : n \in 1..MaxBlock}

\* struct SyncedConnections of lines 11-18
SyncedConnections(head_block, conns) == [head_block |-> head_block, conns |-> conns]
\* #[derive(Default)]: head_block None and conns empty
DefaultSyncedConnections == SyncedConnections(None, <<>>)
\* the values of the struct: any head with any list of distinct connections
ConnLists == {<<>>} \cup {<<a>> : a \in Rpcs}
                    \cup {<<a, b>> : <<a, b>> \in {x \in Rpcs \X Rpcs : x[1] # x[2]}}
Snapshots ==
    {SyncedConnections(h, cs) : h \in {None} \cup {Some(b) : b \in SavedBlocks},
                                cs \in ConnLists}

\* a load that sees the snapshot the ArcSwap was created with
load_initial(s) == DefaultSyncedConnections
\* ArcSwap::load of lines 33, 38, 46, 53 and 57: the snapshot the pointer
\* refers to at the instant of the load
load(s) == s

\* Option::map of lines 41 and 49 with the getter of a field of the block
OptionMap(o, getter) == IF o = None THEN None ELSE Some(o[1][getter])

\* lines 32-34
head_block(s) == s.head_block
\* lines 36-42
head_block_hash(s) == OptionMap(s.head_block, "hash")
\* lines 44-50
head_block_num(s) == OptionMap(s.head_block, "number")
\* a synced() that looks at the head block
synced_by_head(s) == s.head_block # None
\* lines 52-54
synced(s) == ~(s.conns = <<>>)
\* lines 56-58
num_synced_rpcs(s) == Len(s.conns)

\* the methods of Web3Connections that read the snapshot
ReadFns == {"head_block", "head_block_hash", "head_block_num", "synced", "num_synced_rpcs"}
\* the body of each method, applied to the snapshot its load() returned
Apply(fn, s) ==
    CASE fn = "head_block" -> head_block(s)
      [] fn = "head_block_hash" -> head_block_hash(s)
      [] fn = "head_block_num" -> head_block_num(s)
      [] fn = "synced" -> synced(s)
      [] fn = "num_synced_rpcs" -> num_synced_rpcs(s)

\* the task that calls the methods
Readers == {"r1"}

SnapInit ==
    /\ synced_connections = DefaultSyncedConnections
    /\ publications = 0
    /\ readPc = [r \in Readers |-> "idle"]
    /\ readFn = [r \in Readers |-> "synced"]
    /\ loaded = [r \in Readers |-> DefaultSyncedConnections]
    /\ during = [r \in Readers |-> {}]
    /\ result = [r \in Readers |-> None]

\* the ArcSwap is given a new snapshot: one atomic swap of the pointer
Swap(s) ==
    /\ synced_connections' = s
    /\ publications' = publications + 1
    /\ during' = [r \in Readers |->
                     IF readPc[r] \in {"called", "loaded"} THEN during[r] \cup {s}
                     ELSE during[r]]
    /\ UNCHANGED <<readPc, readFn, loaded, result>>

\* a snapshot is published
Publish(s) ==
    /\ publications < MaxPublications
    /\ Swap(s)
    /\ UNCHANGED notSnapVars

\* a task calls one of the methods of lines 32-58
ReadCall(r, fn) ==
    /\ readPc[r] \in {"idle", "returned"}
    /\ readPc' = [readPc EXCEPT ![r] = "called"]
    /\ readFn' = [readFn EXCEPT ![r] = fn]
    /\ during' = [during EXCEPT ![r] = {synced_connections}]
    /\ loaded' = [loaded EXCEPT ![r] = DefaultSyncedConnections]
    /\ result' = [result EXCEPT ![r] = None]
    /\ UNCHANGED <<synced_connections, publications>>
    /\ UNCHANGED notSnapVars

\* self.synced_connections.load(): the one load of the call
ReadLoad(r) ==
    /\ readPc[r] = "called"
    /\ readPc' = [readPc EXCEPT ![r] = "loaded"]
    /\ loaded' = [loaded EXCEPT ![r] = load(synced_connections)]
    /\ UNCHANGED <<synced_connections, publications, readFn, during, result>>
    /\ UNCHANGED notSnapVars

\* the call returns what its body makes of the loaded snapshot
ReadReturn(r) ==
    /\ readPc[r] = "loaded"
    /\ readPc' = [readPc EXCEPT ![r] = "returned"]
    /\ result' = [result EXCEPT ![r] = Apply(readFn[r], loaded[r])]
    /\ UNCHANGED <<synced_connections, publications, readFn, loaded, during>>
    /\ UNCHANGED notSnapVars

SnapNext ==
    \/ \E s \in Snapshots : Publish(s)
    \/ \E r \in Readers, fn \in ReadFns : ReadCall(r, fn)
    \/ \E r \in Readers : ReadLoad(r)
    \/ \E r \in Readers : ReadReturn(r)

(***************************************************************************)
(* A read of the latest block through the proxy, as the test it_works of   *)
(* bin/web3_proxy.rs asks for it, with one healthy upstream.               *)
(***************************************************************************)
\* what a provider's request returned: nothing yet, a block, or an error
NoBlock == [hash |-> "", number |-> 0]
NoResult == [kind |-> "none", block |-> NoBlock]
BlockResult(b) == [kind |-> "block", block |-> b]
NotSynced == [kind |-> "error", block |-> NoBlock]

\* the upstream's answer to eth_getBlockByNumber for the block number n
UpstreamBlock(n) == Block(n)

\* the entry of the cache for the block hash h, if any
CacheGet(cache, h) == {b \in cache : b.hash = h}

\* a read that is answered from the cache under the tag, before the tag is
\* resolved to a block
ProxyReadLatestByTag(s, cache) ==
    IF ~synced(s) \/ head_block(s) = None
    THEN [result |-> NotSynced, cache |-> cache]
    ELSE IF cache # {}
         THEN [result |-> BlockResult(CHOOSE b \in cache : TRUE), cache |-> cache]
         ELSE LET b == UpstreamBlock(head_block_num(s)[1])
              IN [result |-> BlockResult(b), cache |-> cache \cup {b}]

\* app.proxy_web3_rpc for eth_getBlockByNumber("latest", true): "latest" is
\* resolved to the head block of the published snapshot, the cache is asked
\* for that block, and on a miss the block is fetched from the upstream by
\* its number and cached
ProxyReadLatest(s, cache) ==
    IF ~synced(s) \/ head_block(s) = None
    THEN [result |-> NotSynced, cache |-> cache]
    ELSE LET hit == CacheGet(cache, head_block_hash(s)[1]) IN
         IF hit # {}
         THEN [result |-> BlockResult(CHOOSE b \in hit : TRUE), cache |-> cache]
         ELSE LET b == UpstreamBlock(head_block_num(s)[1])
              IN [result |-> BlockResult(b), cache |-> cache \cup {b}]

\* the test mined one block before the proxy started (line 281); the proxy's
\* connection learns of the upstream's head when it subscribes
ChainInit ==
    /\ chain = 1
    /\ head_stream = <<1>>
    /\ response_cache = {}
    /\ anvil_result = NoResult
    /\ proxy_result = NoResult
    /\ mined_since_read = 0
    /\ reads = 0

\* evm_mine of lines 370-373: the upstream mines a block and announces it
Mine ==
    /\ chain < 1 + MaxMined
    /\ chain' = chain + 1
    /\ head_stream' = Append(head_stream, chain + 1)
    /\ mined_since_read' = mined_since_read + 1
    /\ UNCHANGED <<response_cache, anvil_result, proxy_result, reads>>
    /\ UNCHANGED notChainVars

\* the proxy processes a head of its one upstream and publishes the snapshot
\* with that head and the upstream as the synced connection
HeadUpdate ==
    /\ head_stream # <<>>
    /\ Swap(SyncedConnections(Some(Block(Head(head_stream))), <<"A">>))
    /\ head_stream' = Tail(head_stream)
    /\ UNCHANGED <<chain, response_cache, anvil_result, proxy_result, mined_since_read,
                   reads>>
    /\ UNCHANGED <<runVars, wsVars, handlerVars>>

\* lines 355-364 and 375-384: the latest block is asked of the upstream and
\* then of the proxy
ReadLatest ==
    /\ reads < MaxReads
    /\ reads' = reads + 1
    /\ anvil_result' = BlockResult(UpstreamBlock(chain))
    /\ LET r == ProxyReadLatest(synced_connections, response_cache) IN
       /\ proxy_result' = r.result
       /\ response_cache' = r.cache
    /\ mined_since_read' = 0
    /\ UNCHANGED <<chain, head_stream>>
    /\ UNCHANGED notChainVars

ProxyNext ==
    \/ Mine
    \/ HeadUpdate
    \/ ReadLatest

(***************************************************************************)
(* frontend/rpc_proxy_ws.rs: websocket_handler and                         *)
(* websocket_handler_with_key.                                             *)
(***************************************************************************)
\* the rpc keys a keyed request may carry
RpcKeys == {"k1", "k2"}

\* a request to one of the two routes: whether it carries a bearer token,
\* what the authorization it is checked with would decide, whether the key
\* of the path parses, and whether it is a WebSocket upgrade
WsRequests ==
    [route : {"plain", "keyed"}, bearer : BOOLEAN, bearer_ok : BOOLEAN, ip_ok : BOOLEAN,
     user_key : RpcKeys, key_parses : BOOLEAN, key_ok : BOOLEAN, ws_upgrade : BOOLEAN]
NoWsRequest ==
    [route |-> "none", bearer |-> FALSE, bearer_ok |-> FALSE, ip_ok |-> FALSE,
     user_key |-> "k1", key_parses |-> FALSE, key_ok |-> FALSE, ws_upgrade |-> FALSE]

\* app.config.redirect_public_url
RedirectPublicUrl == <<"example.com/">>
\* a Handlebars template: literal text and {{name}} placeholders
Lit(text) == <<"lit", text>>
Var(name) == <<"var", name>>
\* redirect_rpc_key_url of the test's configuration
TestUserUrl == <<Lit("example.com/"), Var("rpc_key_id")>>
UserUrlTemplates == {<<Lit("example.com/"), Var("authorized_request")>>, TestUserUrl}

\* Handlebars::render_template of lines 115-120: the literals as they are and
\* each placeholder replaced by the value the data has under its name, or by
\* nothing when the data has none
RECURSIVE RenderTemplate(_, _)
RenderTemplate(template, data) ==
    IF template = <<>> THEN <<>>
    ELSE LET t == Head(template)
             text == IF t[1] = "lit" THEN t[2]
                     ELSE IF t[2] \in DOMAIN data THEN data[t[2]] ELSE ""
         IN <<text>> \o RenderTemplate(Tail(template), data)

\* what a handler returns (FrontendResult)
ErrResponse == [kind |-> "error", url |-> <<>>]
UpgradeResponse == [kind |-> "upgrade", url |-> <<>>]
Redirect(url) == [kind |-> "redirect", url |-> url]
NoResponse == [kind |-> "none", url |-> <<>>]

\* a handler that looks at the upgrade before it authorizes the request
websocket_handler_upgrade_first(req) ==
    IF req.ws_upgrade THEN UpgradeResponse
    ELSE IF ~(IF req.bearer THEN req.bearer_ok ELSE req.ip_ok) THEN ErrResponse
    ELSE Redirect(RedirectPublicUrl)

\* lines 32-73: websocket_handler
websocket_handler(req) ==
    LET authorized == IF req.bearer THEN req.bearer_ok ELSE req.ip_ok IN
    IF ~authorized THEN ErrResponse
    ELSE IF req.ws_upgrade THEN UpgradeResponse
    ELSE Redirect(RedirectPublicUrl)

\* lines 76-126: websocket_handler_with_key
websocket_handler_with_key(req, template) ==
    IF ~req.key_parses THEN ErrResponse
    ELSE IF ~req.key_ok THEN ErrResponse
    ELSE IF req.ws_upgrade THEN UpgradeResponse
    ELSE Redirect(RenderTemplate(template, [authorized_request |-> req.user_key]))

HandlerInit ==
    /\ redirect_user_url \in UserUrlTemplates
    /\ ws_request = NoWsRequest
    /\ ws_response = NoResponse
    /\ pending_upgrade = FALSE
    /\ sessions = 0
    /\ handled = 0

\* a request arrives on one of the two routes and its handler answers it
HandleRequest(req) ==
    /\ handled < MaxRequests
    /\ ~pending_upgrade
    /\ handled' = handled + 1
    /\ ws_request' = req
    /\ LET resp == IF req.route = "plain" THEN websocket_handler(req)
                   ELSE websocket_handler_with_key(req, redirect_user_url)
       IN /\ ws_response' = resp
          /\ pending_upgrade' = (resp.kind = "upgrade")
    /\ UNCHANGED <<redirect_user_url, sessions>>
    /\ UNCHANGED notHandlerVars

\* lines 64-66 and 106-108: the upgrade completes and the callback of
\* on_upgrade calls proxy_web3_socket
OnUpgrade ==
    /\ pending_upgrade
    /\ pending_upgrade' = FALSE
    /\ sessions' = sessions + 1
    /\ UNCHANGED <<redirect_user_url, ws_request, ws_response, handled>>
    /\ UNCHANGED notHandlerVars

\* the upgrade does not complete: the callback is dropped
UpgradeFails ==
    /\ pending_upgrade
    /\ pending_upgrade' = FALSE
    /\ UNCHANGED <<redirect_user_url, ws_request, ws_response, sessions, handled>>
    /\ UNCHANGED notHandlerVars

HandlerNext ==
    \/ \E req \in WsRequests : HandleRequest(req)
    \/ OnUpgrade
    \/ UpgradeFails

\* the state after construction: run() not yet started, the sockets just split
Init == RunInit /\ WsInit /\ SnapInit /\ ChainInit /\ HandlerInit

\* the supervisor on its own
RunOnlyInit == Init /\ live = Conns /\ ~binary /\ redirect_user_url = TestUserUrl

RunSpec == RunOnlyInit /\ [][RunNext]_vars

\* the WebSocket frontend on its own, with the supervisor at rest: a run
\* with one connection
OneConnInit ==
    Init /\ live = {"c1"} /\ ~binary /\ maxSends = 0 /\ ~mayFail
         /\ redirect_user_url = TestUserUrl

WsSpec == OneConnInit /\ [][WsNext]_vars

\* a run with two connections
TwoConnInit ==
    Init /\ live = Conns /\ ~binary /\ maxSends = 0 /\ ~mayFail
         /\ redirect_user_url = TestUserUrl

Ws2Spec == TwoConnInit /\ [][WsNext]_vars

\* a run with one connection whose client sends Text and Binary frames
BinaryInit ==
    Init /\ live = {"c1"} /\ binary /\ maxSends = 0 /\ ~mayFail
         /\ redirect_user_url = TestUserUrl

WsBinarySpec == BinaryInit /\ [][WsNext]_vars

\* the snapshot and its readers on their own
SnapSpec == OneConnInit /\ [][SnapNext]_vars

\* the read path of the proxy with one upstream on its own
ProxySpec == OneConnInit /\ [][ProxyNext]_vars

\* the two route handlers on their own, under either template
RoutesInit == Init /\ live = {"c1"} /\ ~binary /\ maxSends = 0 /\ ~mayFail

HandlerSpec == RoutesInit /\ [][HandlerNext]_vars

\* the executor runs every task that can go on; what the clients and the
\* upstream do is not up to the executor
FairWsSpec == WsSpec /\ \A c \in Conns : WF_vars(c \in live /\ ConnStep(c))

\* the executor runs run() whenever it can go on, and a task that was told to
\* shut down finishes
FairRunSpec ==
    /\ RunSpec
    /\ WF_vars(RunStep)
    /\ \A t \in Supervised : WF_vars(SupervisedExit(t, "ok"))
    /\ \A b \in Background : WF_vars(BackgroundExit(b, "ok"))

(***************************************************************************)
(* Claims about run().                                                     *)
(***************************************************************************)
\* run() went past select!: a signal was received or a supervised task exited
Triggered == selected # "none"

\* C1: once the shutdown signal was received (or ctrl-c, or a supervised task
\* exited), run() does not return while a background task has not completed.
C1_ReturnsOnlyAfterDrain ==
    (runPc = "done" /\ Triggered) => \A b \in Background : background[b] \in Completed

\* C2: run() returns an error whenever a background task failed or panicked
\* during the drain, and Ok on a shutdown in which no background task failed.
C2_ResultReflectsDrain ==
    runPc = "done" =>
        /\ background_errors > 0 => runResult = "Err"
        /\ (drained = Background /\ background_errors = 0) => runResult = "Ok"

\* C3: whenever a supervised task stopped, with Ok or with Err, a value was
\* sent on the shutdown channel before run() returned.
C3_StopIsBroadcast ==
    (runPc = "done" /\ selected \in Supervised) => runSent

\* C4: a value sent once on the shutdown sender of a running proxy, whose
\* tasks do not fail, leads to run() returning Ok(()).
C4_ShutdownLeadsToOk ==
    (~mayFail /\ maxSends = 1 /\ rxBuf = 1) ~> (runResult = "Ok")

C4_Witness ==
    /\ runResult = "Ok"
    /\ ~mayFail /\ maxSends = 1 /\ extSends = 1
    /\ selected = "shutdown"
    /\ \A b \in Background : background[b] = "ok"

(***************************************************************************)
(* Claims about the WebSocket frontend.                                    *)
(***************************************************************************)
\* the subscription tasks of a connection that are running
RunningTasks(c) == {i \in DOMAIN tasks[c] : tasks[c][i].state = "running"}

\* the subscription with id s is live on connection c and its handle is in
\* the connection's map
Registered(c, s) ==
    \E i \in RunningTasks(c) :
        /\ tasks[c][i].sub = s
        /\ \E k \in DOMAIN subscriptions[c] : subscriptions[c][k] = i

\* C5: after an eth_subscribe that returned id S, an eth_unsubscribe whose
\* params are the one-element array [S] finds the entry registered for S,
\* removes it from the map, aborts the subscription's task and replies true.
C5_UnsubscribeRoundTrip ==
    [][\A c \in Conns :
          (/\ readerPc[c] = "handling"
           /\ readerPc'[c] # "handling"
           /\ cur[c].method = "eth_unsubscribe"
           /\ cur[c].params.t = "arr"
           /\ Len(cur[c].params.items) = 1
           /\ Registered(c, cur[c].params.items[1]))
          => (/\ response_msg'[c] = Resp(cur[c].id, "true")
              /\ ~Registered(c, cur[c].params.items[1])'
              /\ Cardinality(DOMAIN subscriptions'[c])
                    = Cardinality(DOMAIN subscriptions[c]) - 1)]_vars

AllEnded(c) ==
    /\ readerPc[c] \in {"done", "panicked"}
    /\ writerPc[c] = "done"
    /\ RunningTasks(c) = {}

\* C7: when a client's connection ends, every subscription still registered
\* on it is eventually ended and the reader and the writer eventually stop.
C7_DisconnectEndsEverything ==
    \A c \in Conns : (sock[c] = "closed") ~> AllEnded(c)

\* the queue bound of the claim (1024 messages by default), scaled to the model
QueueBound == 2

\* C8: the queue between the producers and the writer holds at most the
\* configured bound of messages in every reachable state.
C8_QueueBounded ==
    \A c \in Conns : Len(queue[c]) <= QueueBound

\* C9 as claimed: a request that arrived is started without waiting for an
\* earlier request to finish: the reader is never suspended in one request
\* while the next request frame waits unread.
C9_NoHeadOfLineBlocking ==
    \A c \in Conns :
        ~(/\ readerPc[c] = "handling"
          /\ inbound[c] # <<>>
          /\ Head(inbound[c]).kind = "Text")

\* the answers of the reader itself (responses and pongs) on the channel
Answers(c) == SelectSeq(history[c], LAMBDA m : m.kind # "Notify" /\ m.id # NullId)

\* C9: frames are handled one at a time in arrival order: the answers are
\* enqueued in arrival order, and while a request is suspended no later
\* frame has been read or answered.
C9_OneAtATimeInArrivalOrder ==
    \A c \in Conns :
        /\ \A i \in 1..Len(Answers(c)), j \in 1..Len(Answers(c)) :
              i < j => Answers(c)[i].id < Answers(c)[j].id
        /\ readerPc[c] = "handling" =>
              /\ \A i \in 1..Len(Answers(c)) : Answers(c)[i].id < cur[c].id
              /\ \A i \in 1..Len(inbound[c]) : cur[c].id < inbound[c][i].id

C9_Witness ==
    \E c \in Conns :
        /\ readerPc[c] = "handling"
        /\ Len(Answers(c)) >= 1
        /\ inbound[c] # <<>>
        /\ Head(inbound[c]).kind = "Text"

IsPrefix(p, q) == Len(p) <= Len(q) /\ SubSeq(q, 1, Len(p)) = p

\* C10: the messages enqueued on a connection's channel are written to the
\* socket in the order they were enqueued, none twice and none reordered;
\* the events of one subscription are written in the order it produced them.
C10_WrittenInEnqueueOrder ==
    \A c \in Conns :
        /\ IsPrefix(written[c], history[c])
        /\ \A i \in 1..Len(written[c]), j \in 1..Len(written[c]) :
              (/\ i < j
               /\ written[c][i].kind = "Notify"
               /\ written[c][j].kind = "Notify"
               /\ written[c][i].val = written[c][j].val)
              => written[c][i].id < written[c][j].id

C10_Witness ==
    \E c \in Conns : \E i \in 1..Len(written[c]), j \in 1..Len(written[c]) :
        /\ i < j
        /\ written[c][i].kind = "Notify"
        /\ written[c][j].kind = "Notify"
        /\ written[c][i].val = written[c][j].val
        /\ Len(written[c]) >= 3

(***************************************************************************)
(* Claims about the frames of a WebSocket connection.                      *)
(***************************************************************************)
\* the reader of c takes the next frame off the socket in this step
Takes(c) == readerPc[c] = "idle" /\ Len(inbound'[c]) < Len(inbound[c])

\* handle_socket_payload of c completes in this step
Finishes(c) == readerPc[c] = "handling" /\ readerPc'[c] # "handling"

\* a request the claim calls malformed: text that does not parse, or an
\* eth_unsubscribe without params
Malformed(f) == ~f.valid \/ (f.method = "eth_unsubscribe" /\ f.params = NoParams)

\* exactly the message m was put on the channel of c in this step
Enqueues(c, m) == history'[c] = Append(history[c], m)

\* the pong that carries the payload of the Ping frame f
PongFor(f) == [kind |-> "Pong", id |-> f.id, val |-> ""]

\* C11: a malformed request (text that does not parse, eth_unsubscribe
\* without params, a Binary frame that is not valid UTF-8) is answered with a
\* JSON-RPC error response on the open channel, and the reader goes on to
\* the next frame.
C11_MalformedIsAnswered ==
    [][\A c \in Conns :
          (/\ writerPc[c] = "running"
           /\ \/ Takes(c) /\ ~Head(inbound[c]).utf8
              \/ Finishes(c) /\ Malformed(cur[c]))
          => (/\ readerPc'[c] = "idle"
              /\ \E id \in 0..(sentFrames[c]) : Enqueues(c, Resp(id, "error")))]_vars

\* C12: when the payload does not parse as a JSON-RPC request,
\* handle_socket_payload returns one error response whose id is null, which
\* is the one message put on the open channel, and the subscription map is
\* unchanged.
C12_ParseFailureAnswersNull ==
    [][\A c \in Conns :
          (Finishes(c) /\ ~cur[c].valid)
          => (/\ response_msg'[c] = Resp(NullId, "error")
              /\ subscriptions'[c] = subscriptions[c]
              /\ tasks'[c] = tasks[c]
              /\ writerPc[c] = "running" => Enqueues(c, Resp(NullId, "error")))]_vars

C12_Witness ==
    \E c \in Conns :
        /\ response_msg[c] = Resp(NullId, "error")
        /\ history[c] # <<>>
        /\ history[c][Len(history[c])] = Resp(NullId, "error")
        /\ DOMAIN subscriptions[c] # {}

\* C13: the response handle_socket_payload builds for a parsed request with
\* id I carries the id I: the result of eth_unsubscribe, and the error
\* response of a failed eth_subscribe, eth_unsubscribe or forwarded call.
C13_ResponseCarriesRequestId ==
    [][\A c \in Conns :
          (/\ Finishes(c)
           /\ readerPc'[c] # "panicked"
           /\ cur[c].valid
           /\ cur[c].method = "eth_unsubscribe" \/ response_msg'[c].val = "error")
          => (/\ response_msg'[c].id = cur[c].id
              /\ writerPc[c] = "running" => Enqueues(c, response_msg'[c]))]_vars

C13_Witness ==
    \E c \in Conns :
        /\ response_msg[c].val = "true"
        /\ response_msg[c].id > 1
        /\ history[c] # <<>>
        /\ history[c][Len(history[c])] = response_msg[c]

\* C14 as claimed: every Ping(x) that is read puts exactly one Pong(x) on the
\* channel; a Pong that is read puts nothing on the channel, changes no
\* subscription state and does not end the session.
C14_PingAlwaysAnswered ==
    [][\A c \in Conns :
          /\ (Takes(c) /\ Head(inbound[c]).kind = "Ping")
                => Enqueues(c, PongFor(Head(inbound[c])))
          /\ (Takes(c) /\ Head(inbound[c]).kind = "Pong")
                => /\ history'[c] = history[c]
                   /\ subscriptions'[c] = subscriptions[c]
                   /\ tasks'[c] = tasks[c]
                   /\ readerPc'[c] = "idle"]_vars

\* C14: a Ping(x) read while the writer of the connection is running puts
\* exactly one Pong(x) on the channel and the reader goes on; when the writer
\* has stopped, nothing is put on the channel and the reader ends. A Pong
\* that is read puts nothing on the channel, changes no subscription state
\* and does not end the session.
C14_PingAnsweredWhileWriterRuns ==
    [][\A c \in Conns :
          /\ (Takes(c) /\ Head(inbound[c]).kind = "Ping")
                => /\ subscriptions'[c] = subscriptions[c]
                   /\ IF writerPc[c] = "running"
                      THEN /\ Enqueues(c, PongFor(Head(inbound[c])))
                           /\ readerPc'[c] = "idle"
                      ELSE /\ history'[c] = history[c]
                           /\ readerPc'[c] = "done"
          /\ (Takes(c) /\ Head(inbound[c]).kind = "Pong")
                => /\ history'[c] = history[c]
                   /\ subscriptions'[c] = subscriptions[c]
                   /\ tasks'[c] = tasks[c]
                   /\ readerPc'[c] = "idle"]_vars

C14_Witness ==
    \E c \in Conns : \E i \in DOMAIN history[c] :
        /\ history[c][i].kind = "Pong"
        /\ history[c][i].id > 1
        /\ readerPc[c] = "idle"

\* C15: a Binary frame whose bytes are the UTF-8 encoding of a text is
\* handled like the Text frame that carries the text: the reader suspends in
\* handle_socket_payload with the same payload, and the response and the
\* change of the subscription map are those of the Text frame.
C15_BinaryLikeText ==
    [][\A c \in Conns :
          /\ (Takes(c) /\ Head(inbound[c]).kind = "Binary" /\ Head(inbound[c]).utf8)
                => /\ readerPc'[c] = "handling"
                   /\ TextOf(cur'[c]) = TextOf(Head(inbound[c]))
          /\ (Finishes(c) /\ cur[c].kind = "Binary")
                => \E oc \in {"ok", "err"} :
                      LET r == HandleSocketPayload(TextOf(cur[c]), subscription_count[c],
                                                   subscriptions[c], oc, Len(tasks[c]) + 1)
                      IN IF r.panic
                         THEN /\ readerPc'[c] = "panicked"
                              /\ subscriptions'[c] = subscriptions[c]
                         ELSE /\ response_msg'[c] = r.response
                              /\ subscriptions'[c] = r.subscriptions]_vars

C15_Witness ==
    \E c \in Conns :
        /\ readerPc[c] = "handling"
        /\ cur[c].kind = "Binary"
        /\ cur[c].method = "eth_unsubscribe"
        /\ cur[c].params # NoParams
        /\ ToJsonString(cur[c].params) \in DOMAIN subscriptions[c]

\* C20: every Text or Binary frame that is read puts exactly one response
\* message on the open channel, whatever the outcome of the request.
C20_OneResponsePerFrame ==
    [][\A c \in Conns :
          (/\ writerPc[c] = "running"
           /\ \/ Takes(c) /\ Head(inbound[c]).kind = "Binary" /\ ~Head(inbound[c]).utf8
              \/ Finishes(c))
          => \E id \in 0..(sentFrames[c]), val \in {"error", "result", "true", "false"}
                      \cup IssuedIds(c)' :
                Enqueues(c, Resp(id, val))]_vars

(***************************************************************************)
(* Claims about the published snapshot.                                    *)
(***************************************************************************)
\* C16: synced() returns false exactly when the conns of the published
\* snapshot are empty and num_synced_rpcs() returns their number; on the
\* snapshot with no head block and no conns (the Default one) synced() is
\* false, num_synced_rpcs() is 0 and head_block(), head_block_hash() and
\* head_block_num() are None.
C16_SyncedAndCounts ==
    \A r \in Readers :
        readPc[r] = "returned" =>
            /\ readFn[r] = "synced" => (result[r] = FALSE <=> loaded[r].conns = <<>>)
            /\ readFn[r] = "num_synced_rpcs" => result[r] = Len(loaded[r].conns)
            /\ (loaded[r].head_block = None /\ loaded[r].conns = <<>>) =>
                  result[r] = CASE readFn[r] = "synced" -> FALSE
                                [] readFn[r] = "num_synced_rpcs" -> 0
                                [] OTHER -> None

C16_Witness ==
    \E r \in Readers :
        /\ readPc[r] = "returned"
        /\ readFn[r] = "synced"
        /\ result[r] = FALSE
        /\ loaded[r].head_block # None
        /\ publications > 0

\* what each method is to return for the snapshot s
Projection(fn, s) ==
    CASE fn = "head_block" -> s.head_block
      [] fn = "head_block_hash" ->
            IF s.head_block = None THEN None ELSE Some(s.head_block[1].hash)
      [] fn = "head_block_num" ->
            IF s.head_block = None THEN None ELSE Some(s.head_block[1].number)
      [] fn = "synced" -> Len(s.conns) > 0
      [] fn = "num_synced_rpcs" -> Len(s.conns)

\* C17: whatever publications interleave with a call, the call returns the
\* projection of one snapshot that was the published one at some instant
\* between the call and its return; a block it returns is the head block of
\* that snapshot, never the hash of one with the number of another.
C17_OneSnapshotPerCall ==
    \A r \in Readers :
        readPc[r] = "returned" =>
            \E s \in during[r] : result[r] = Projection(readFn[r], s)

C17_Witness ==
    \E r \in Readers :
        /\ readPc[r] = "returned"
        /\ readFn[r] = "head_block"
        /\ result[r] # None
        /\ Cardinality(during[r]) = 3
        /\ loaded[r] # synced_connections

(***************************************************************************)
(* Claims about a read through the proxy.                                  *)
(***************************************************************************)
\* the head the proxy published is the upstream's latest block
CaughtUp == head_block_num(synced_connections) = Some(chain)

Authorized(req) ==
    IF req.route = "plain" THEN (req.bearer /\ req.bearer_ok) \/ (~req.bearer /\ req.ip_ok)
    ELSE req.key_parses /\ req.key_ok

\* the url of the user of the request, as the configured template renders it
UserUrl(req) == RenderTemplate(redirect_user_url, [authorized_request |-> req.user_key])

\* C19: a session is started only for a request that was authorized and is
\* a WebSocket upgrade; an authorized request that is not an upgrade gets a
\* redirect, to the public url on the plain route and to the rendered url
\* of the user on the keyed route; a request that is not authorized gets the
\* error; and neither of the last two starts a session.
C19_SessionOnlyWhenAuthorizedUpgrade ==
    [][/\ sessions' # sessions =>
             (ws_response.kind = "upgrade" /\ Authorized(ws_request) /\ ws_request.ws_upgrade)
       /\ handled' # handled =>
             /\ (Authorized(ws_request') /\ ws_request'.ws_upgrade)
                   => ws_response' = UpgradeResponse
             /\ (Authorized(ws_request') /\ ~ws_request'.ws_upgrade)
                   => /\ ws_response' = Redirect(IF ws_request'.route = "plain"
                                                  THEN RedirectPublicUrl
                                                  ELSE UserUrl(ws_request'))
                      /\ ~pending_upgrade'
             /\ ~Authorized(ws_request')
                   => /\ ws_response' = ErrResponse
                      /\ ~pending_upgrade'
             /\ sessions' = sessions]_vars

C19_Witness ==
    /\ sessions = 1
    /\ handled = 2
    /\ ws_request.route = "keyed"
    /\ Authorized(ws_request)
    /\ ws_response.kind = "redirect"

(***************************************************************************)
(* Claims about the subscription map of a connection.                      *)
(***************************************************************************)
\* the JSON text of the params of an eth_unsubscribe: a string in quotes, or
\* an array of strings in quotes between brackets
ParamsText(params) ==
    IF params.t = "str" THEN <<"\"", params.items[1], "\"">>
    ELSE <<"[">> \o Joined(params.items) \o <<"]">>

\* the tasks of c whose handle was aborted
AbortedTasks(c) == {i \in DOMAIN tasks[c] : tasks[c][i].state = "aborted"}

\* the replies true that were put on the channel of c
TrueReplies(c) == SelectSeq(history[c], LAMBDA m : m.kind = "Text" /\ m.val = "true")

\* C21: an eth_unsubscribe whose key is not in the map of the connection
\* replies false, aborts no task and leaves the map unchanged; an aborted
\* task is not touched again and, after every request, a handle that was
\* aborted is no longer in the map, so it is never aborted twice, and there
\* are no more replies true than aborted handles, at most one for each
\* subscription id.
C21_UnknownKeyRepliesFalse ==
    [][\A c \in Conns :
          /\ (/\ Finishes(c)
               /\ cur[c].valid
               /\ cur[c].method = "eth_unsubscribe"
               /\ cur[c].params # NoParams
               /\ ParamsText(cur[c].params) \notin DOMAIN subscriptions[c])
              => (/\ response_msg'[c] = Resp(cur[c].id, "false")
                  /\ tasks'[c] = tasks[c]
                  /\ subscriptions'[c] = subscriptions[c])
          /\ \A i \in AbortedTasks(c) : tasks'[c][i] = tasks[c][i]
          /\ Finishes(c)
                => /\ \A k \in DOMAIN subscriptions'[c] :
                         subscriptions'[c][k] \notin AbortedTasks(c)'
                   /\ Len(TrueReplies(c)') <= Cardinality(AbortedTasks(c)')
                   /\ \A i \in AbortedTasks(c)', j \in AbortedTasks(c)' :
                         i # j => tasks'[c][i].sub # tasks'[c][j].sub]_vars

C21_Witness ==
    \E c \in Conns : \E i \in DOMAIN history[c], j \in DOMAIN history[c] :
        /\ i < j
        /\ history[c][i].kind = "Text" /\ history[c][i].val = "true"
        /\ history[c][j].kind = "Text" /\ history[c][j].val = "false"
        /\ AbortedTasks(c) # {}

\* C22: the map of a connection changes only when an eth_subscribe or an
\* eth_unsubscribe completes; an eth_subscribe that succeeds adds exactly
\* one entry, under the JSON text of the id it returns and under no key the
\* map already has, holding the handle of the new subscription, and keeps
\* every other entry; an eth_subscribe that fails, every other method and
\* every payload that does not parse leave the map unchanged.
C22_MapChangesOnlyBySubscribeUnsubscribe ==
    [][\A c \in Conns :
          /\ subscriptions'[c] # subscriptions[c]
                => (/\ Finishes(c)
                    /\ cur[c].valid
                    /\ cur[c].method \in {"eth_subscribe", "eth_unsubscribe"})
          /\ (Finishes(c) /\ cur[c].valid /\ cur[c].method = "eth_subscribe")
                => IF response_msg'[c].val = "error"
                   THEN subscriptions'[c] = subscriptions[c]
                   ELSE LET key == <<"\"", response_msg'[c].val, "\"">>
                            handle == Len(tasks'[c])
                        IN /\ key \notin DOMAIN subscriptions[c]
                           /\ DOMAIN subscriptions'[c] = DOMAIN subscriptions[c] \cup {key}
                           /\ subscriptions'[c][key] = handle
                           /\ Len(tasks'[c]) = Len(tasks[c]) + 1
                           /\ tasks'[c][handle].sub = response_msg'[c].val
                           /\ tasks'[c][handle].state = "running"
                           /\ \A k \in DOMAIN subscriptions[c] :
                                 subscriptions'[c][k] = subscriptions[c][k]]_vars

C22_Witness ==
    \E c \in Conns :
        /\ Cardinality(DOMAIN subscriptions[c]) = 2
        /\ \E k1 \in DOMAIN subscriptions[c], k2 \in DOMAIN subscriptions[c] :
              subscriptions[c][k1] # subscriptions[c][k2]
        /\ response_msg[c].kind = "Text"
        /\ response_msg[c].val = "error"

====
